---- MODULE Spec2Model ----
\* Model of the command-line client in src/main.rs: one run of main(), from the
\* parsed command line to the signed transaction or the first error.
EXTENDS Integers, Sequences, FiniteSets, TLC

VARIABLES args, validExpiries, pc, configLoad, solana_config_file,
          wallet_keypair, log, instruction, transaction, latest_blockchash,
          signatures, error, exit_code

vars == <<args, validExpiries, pc, configLoad, solana_config_file,
          wallet_keypair, log, instruction, transaction, latest_blockchash,
          signatures, error, exit_code>>

\* ---------------------------------------------------------------- bounds
NumMints == 2
NumTokenizers == 1
MaxAmount == 2
MaxExpiry == 1

\* ---------------------------------------------------------------- values
None == <<"None">>
Some(v) == <<"Some", v>>

Key(kind, n) == <<"key", kind, n>>
LystId == Key("program", "lyst")

\* Pure address derivations of the external libraries: deterministic and
\* injective in their seeds.
get_tokenizer_address(program_id, mint, expiry) == <<"tokenizer", program_id, mint, expiry>>
get_principal_mint_address(program_id, tokenizer) == <<"principal_mint", program_id, tokenizer>>
get_yield_mint_address(program_id, tokenizer) == <<"yield_mint", program_id, tokenizer>>
get_associated_token_address(owner, mint) == <<"associated", owner, mint>>

Mints == {Key("mint", i) : i \in 1..NumMints}
Expiries == 0..MaxExpiry
Amounts == 1..MaxAmount
\* Tokenizer addresses a user can pass: those of tokenizers initialised for some
\* (mint, expiry), and addresses that no init action derives.
Tokenizers == {Key("tokenizer", i) : i \in 1..NumTokenizers}
              \cup {get_tokenizer_address(LystId, m, e) : m \in Mints, e \in Expiries}

InitLeaves == {"init tokenizer", "init mints", "init tokenizer-mints"}
InstructionLeaves == {"tokenize deposit", "tokenize principal", "tokenize yield",
                      "tokenize principal-yield", "redeem principal",
                      "redeem principal-yield", "claim yield",
                      "burn principal", "burn yield"}

InitializeCommonFields == [underlying_mint_address : Mints, expiry : Expiries]
InstructionCommonFields == [lysergic_tokenizer_address : Tokenizers,
                            amount : Amounts,
                            underlying_mint_address : {None} \cup {Some(m) : m \in Mints}]

Commands == [leaf : InitLeaves, common_fields : InitializeCommonFields]
            \cup [leaf : InstructionLeaves, common_fields : InstructionCommonFields]

Cli == [config : {None, Some("cli-config.yml")},
        rpc : {None, Some("http://cli-rpc")},
        payer : {None, Some("cli-id.json")},
        cmd : Commands]

\* solana_cli_config::Config, reduced to the two fields main() reads.
ConfigDefault == [json_rpc_url |-> "http://default-rpc", keypair_path |-> "default-id.json"]
ConfigInFile == [json_rpc_url |-> "http://file-rpc", keypair_path |-> "file-id.json"]

pubkey(path) == Key("wallet", path)
wallet_pubkey == pubkey(wallet_keypair[2])

\* ---------------------------------------------------------------- log
\* Every call main() makes to a collaborator is appended to log, in order.
Call(op, in, ok) == [op |-> op, in |-> in, ok |-> ok]
Derive(fn, in) == Call(fn, in, TRUE)

DeriveOps == {"get_tokenizer_address", "get_principal_mint_address",
              "get_yield_mint_address", "get_associated_token_address"}
ConstructorOps == {"init_lysergic_tokenizer", "init_mints", "init_tokenizer_and_mints",
                   "deposit_underlying", "tokenize_principal", "tokenize_yield",
                   "deposit_and_tokenize", "redeem_principal_only",
                   "redeem_principal_and_yield", "claim_yield",
                   "burn_principal_token", "burn_yield_token"}
NetworkOps == {"get_latest_blockhash"}

Indices(ops) == {i \in 1..Len(log) : log[i].op \in ops}
Count(ops) == Cardinality(Indices(ops))

\* anyhow!(msg, err): the wrapping message and the underlying cause. The
\* backquotes around the instruction name in the source are written < >.
Wrapped(msg, cause) == [msg |-> msg, cause |-> cause]
\* The ? operator on a foreign error: converted, no message added.
Bare(cause) == [msg |-> "", cause |-> cause]

\* ---------------------------------------------------------------- Init
Init ==
    /\ args \in Cli
    /\ validExpiries \in SUBSET Expiries
    /\ pc = "load_config"
    /\ configLoad = "pending"
    /\ solana_config_file = None
    /\ wallet_keypair = None
    /\ log = <<>>
    /\ instruction = None
    /\ transaction = None
    /\ latest_blockchash = None
    /\ signatures = <<>>
    /\ error = None
    /\ exit_code = -1

\* return Err(e) from main: the process reports e and exits with status 1.
Fail(e) ==
    /\ error' = Some(e)
    /\ exit_code' = 1
    /\ pc' = "done"

\* solana_cli_config::CONFIG_FILE: the default path under the home directory.
CONFIG_FILE == "~/.config/solana/cli/config.yml"

\* LoadConfig with the load error propagated instead of discarded.
LoadConfigFatal ==
    /\ pc = "load_config"
    /\ \E file \in {"none", "ok", "malformed"} :
        /\ configLoad' = file
        /\ log' = IF file = "none" THEN log
                  ELSE Append(log, Call("Config::load", <<CONFIG_FILE>>, file = "ok"))
        /\ IF file = "malformed"
           THEN /\ Fail(Bare("Config::load"))
                /\ UNCHANGED solana_config_file
           ELSE /\ solana_config_file' = IF file = "ok" THEN ConfigInFile ELSE ConfigDefault
                /\ pc' = "read_keypair"
                /\ UNCHANGED <<error, exit_code>>
    /\ UNCHANGED <<args, validExpiries, wallet_keypair, instruction, transaction,
                   latest_blockchash, signatures>>

\* main.rs 93-97. CONFIG_FILE is None ("none"), or names a file that loads
\* ("ok") or does not ("malformed"); unwrap_or_default() discards the Err.
LoadConfig ==
    /\ pc = "load_config"
    /\ \E file \in {"none", "ok", "malformed"} :
        /\ configLoad' = file
        /\ log' = IF file = "none" THEN log
                  ELSE Append(log, Call("Config::load", <<CONFIG_FILE>>, file = "ok"))
        /\ solana_config_file' = IF file = "ok" THEN ConfigInFile ELSE ConfigDefault
    /\ pc' = "read_keypair"
    /\ UNCHANGED <<args, validExpiries, wallet_keypair, instruction, transaction,
                   latest_blockchash, signatures, error, exit_code>>

\* ReadKeypair with a read failure replaced by a fallback keypair.
ReadKeypairOrFallback ==
    /\ pc = "read_keypair"
    /\ \E readable \in BOOLEAN :
        /\ log' = Append(log, Call("read_keypair_file", <<solana_config_file.keypair_path>>, readable))
        /\ wallet_keypair' = IF readable THEN Some(solana_config_file.keypair_path)
                             ELSE Some("fallback-id.json")
        /\ pc' = "dispatch"
    /\ UNCHANGED <<args, validExpiries, configLoad, solana_config_file, instruction,
                   transaction, latest_blockchash, signatures, error, exit_code>>

\* main.rs 99-106
ReadKeypair ==
    /\ pc = "read_keypair"
    /\ \E readable \in BOOLEAN :
        /\ log' = Append(log, Call("read_keypair_file", <<solana_config_file.keypair_path>>, readable))
        /\ IF readable
           THEN /\ wallet_keypair' = Some(solana_config_file.keypair_path)
                /\ pc' = "dispatch"
                /\ UNCHANGED <<error, exit_code>>
           ELSE /\ Fail(Wrapped("Unable to read keypair file", "read_keypair_file"))
                /\ UNCHANGED wallet_keypair
    /\ UNCHANGED <<args, validExpiries, configLoad, solana_config_file, instruction,
                   transaction, latest_blockchash, signatures>>

\* ---------------------------------------------------------------- dispatch
cf == args.cmd.common_fields
AtLeaf(leaf) == pc = "dispatch" /\ args.cmd.leaf = leaf

DispatchUnchanged == UNCHANGED <<args, validExpiries, configLoad, solana_config_file,
                                 wallet_keypair, transaction, latest_blockchash, signatures>>

\* The tail of every match arm: the derivations already evaluated, then the
\* external constructor, whose Err is wrapped by map_err(anyhow!(msg, err))?.
Construct(derivations, ctor, ctorArgs, msg) ==
    \E ok \in BOOLEAN :
        /\ log' = derivations \o <<Call(ctor, ctorArgs, ok)>>
        /\ IF ok
           THEN /\ instruction' = Some([ctor |-> ctor, args |-> ctorArgs])
                /\ pc' = "assemble"
                /\ UNCHANGED <<error, exit_code>>
           ELSE /\ Fail(Wrapped(msg, ctor))
                /\ UNCHANGED instruction

\* Expiry::from_i64(expiry)? as the last argument of a constructor call: the
\* arguments are evaluated first, and an Err leaves the arm through the bare ? operator.
ConstructWithExpiry(derivations, ctor, ctorArgs, msg) ==
    LET checked == Append(derivations, Call("Expiry::from_i64", <<cf.expiry>>, cf.expiry \in validExpiries))
    IN  IF cf.expiry \in validExpiries
        THEN Construct(checked, ctor, Append(ctorArgs, <<"Expiry", cf.expiry>>), msg)
        ELSE /\ log' = checked
             /\ Fail(Bare("Expiry::from_i64"))
             /\ UNCHANGED instruction

\* return Err(anyhow!("Underlying mint address is required"))
MissingMint ==
    /\ Fail(Wrapped("Underlying mint address is required", ""))
    /\ UNCHANGED <<log, instruction>>

\* main.rs 110-139
InitTokenizer ==
    /\ AtLeaf("init tokenizer")
    /\ LET U == cf.underlying_mint_address
           lysergic_tokenizer_address == get_tokenizer_address(LystId, U, cf.expiry)
           underlying_vault_address == get_associated_token_address(lysergic_tokenizer_address, U)
           principal_mint_address == get_principal_mint_address(LystId, lysergic_tokenizer_address)
           yield_mint_address == get_yield_mint_address(LystId, lysergic_tokenizer_address)
       IN  ConstructWithExpiry(
               log \o << Derive("get_tokenizer_address", <<LystId, U, cf.expiry>>),
                         Derive("get_associated_token_address", <<lysergic_tokenizer_address, U>>),
                         Derive("get_principal_mint_address", <<LystId, lysergic_tokenizer_address>>),
                         Derive("get_yield_mint_address", <<LystId, lysergic_tokenizer_address>>) >>,
               "init_lysergic_tokenizer",
               <<lysergic_tokenizer_address, wallet_pubkey, underlying_vault_address, U,
                 principal_mint_address, yield_mint_address>>,
               "Unable to create init instruction")
    /\ DispatchUnchanged

\* main.rs 140-161
InitMints ==
    /\ AtLeaf("init mints")
    /\ LET U == cf.underlying_mint_address
           lysergic_tokenizer_address == get_tokenizer_address(LystId, U, cf.expiry)
           principal_mint_address == get_principal_mint_address(LystId, lysergic_tokenizer_address)
           yield_mint_address == get_yield_mint_address(LystId, lysergic_tokenizer_address)
       IN  Construct(
               log \o << Derive("get_tokenizer_address", <<LystId, U, cf.expiry>>),
                         Derive("get_principal_mint_address", <<LystId, lysergic_tokenizer_address>>),
                         Derive("get_yield_mint_address", <<LystId, lysergic_tokenizer_address>>) >>,
               "init_mints",
               <<lysergic_tokenizer_address, wallet_pubkey, principal_mint_address,
                 yield_mint_address, U>>,
               "Unable to create <Initialize> instruction")
    /\ DispatchUnchanged

\* main.rs 162-191
InitTokenizerMints ==
    /\ AtLeaf("init tokenizer-mints")
    /\ LET U == cf.underlying_mint_address
           lysergic_tokenizer_address == get_tokenizer_address(LystId, U, cf.expiry)
           underlying_vault_address == get_associated_token_address(lysergic_tokenizer_address, U)
           principal_mint_address == get_principal_mint_address(LystId, lysergic_tokenizer_address)
           yield_mint_address == get_yield_mint_address(LystId, lysergic_tokenizer_address)
       IN  ConstructWithExpiry(
               log \o << Derive("get_tokenizer_address", <<LystId, U, cf.expiry>>),
                         Derive("get_associated_token_address", <<lysergic_tokenizer_address, U>>),
                         Derive("get_principal_mint_address", <<LystId, lysergic_tokenizer_address>>),
                         Derive("get_yield_mint_address", <<LystId, lysergic_tokenizer_address>>) >>,
               "init_tokenizer_and_mints",
               <<lysergic_tokenizer_address, wallet_pubkey, underlying_vault_address, U,
                 principal_mint_address, yield_mint_address>>,
               "Unable to create <InitializeTokenizerAndMints> instruction")
    /\ DispatchUnchanged

\* main.rs 194-214
TokenizeDeposit ==
    /\ AtLeaf("tokenize deposit")
    /\ IF cf.underlying_mint_address = None
       THEN MissingMint
       ELSE LET T == cf.lysergic_tokenizer_address
                underlying_mint_address == cf.underlying_mint_address[2]
                underlying_vault == get_associated_token_address(T, underlying_mint_address)
            IN  Construct(
                    log \o << Derive("get_associated_token_address", <<T, underlying_mint_address>>) >>,
                    "deposit_underlying",
                    <<T, wallet_pubkey, underlying_vault, underlying_mint_address, cf.amount>>,
                    "Unable to create <Deposit> instruction")
    /\ DispatchUnchanged

\* main.rs 215-234
TokenizePrincipal ==
    /\ AtLeaf("tokenize principal")
    /\ LET T == cf.lysergic_tokenizer_address
           principal_mint_address == get_principal_mint_address(LystId, T)
           user_principal_token_address == get_associated_token_address(wallet_pubkey, principal_mint_address)
       IN  Construct(
               log \o << Derive("get_principal_mint_address", <<LystId, T>>),
                         Derive("get_associated_token_address", <<wallet_pubkey, principal_mint_address>>) >>,
               "tokenize_principal",
               <<T, principal_mint_address, wallet_pubkey, user_principal_token_address, cf.amount>>,
               "Unable to create <TokenizePrincipal> instruction")
    /\ DispatchUnchanged

\* main.rs 235-252
TokenizeYield ==
    /\ AtLeaf("tokenize yield")
    /\ LET T == cf.lysergic_tokenizer_address
           yield_mint_address == get_yield_mint_address(LystId, T)
           user_yield_token_address == get_associated_token_address(wallet_pubkey, yield_mint_address)
       IN  Construct(
               log \o << Derive("get_yield_mint_address", <<LystId, T>>),
                         Derive("get_associated_token_address", <<wallet_pubkey, yield_mint_address>>) >>,
               "tokenize_yield",
               <<T, yield_mint_address, wallet_pubkey, user_yield_token_address, cf.amount>>,
               "Unable to create <TokenizeYield> instruction")
    /\ DispatchUnchanged

\* TokenizePrincipalYield with the user principal and yield accounts swapped
\* in the constructor call.
TokenizePrincipalYieldSwapped ==
    /\ AtLeaf("tokenize principal-yield")
    /\ IF cf.underlying_mint_address = None
       THEN MissingMint
       ELSE LET T == cf.lysergic_tokenizer_address
                underlying_mint_address == cf.underlying_mint_address[2]
                underlying_vault == get_associated_token_address(T, underlying_mint_address)
                principal_mint_address == get_principal_mint_address(LystId, T)
                yield_mint_address == get_yield_mint_address(LystId, T)
                user_underlying_token_address == get_associated_token_address(wallet_pubkey, underlying_mint_address)
                user_principal_token_address == get_associated_token_address(wallet_pubkey, principal_mint_address)
                user_yield_token_address == get_associated_token_address(wallet_pubkey, yield_mint_address)
            IN  Construct(
                    log \o << Derive("get_associated_token_address", <<T, underlying_mint_address>>),
                              Derive("get_principal_mint_address", <<LystId, T>>),
                              Derive("get_yield_mint_address", <<LystId, T>>),
                              Derive("get_associated_token_address", <<wallet_pubkey, underlying_mint_address>>),
                              Derive("get_associated_token_address", <<wallet_pubkey, principal_mint_address>>),
                              Derive("get_associated_token_address", <<wallet_pubkey, yield_mint_address>>) >>,
                    "deposit_and_tokenize",
                    <<T, underlying_vault, principal_mint_address, yield_mint_address, wallet_pubkey,
                      user_underlying_token_address, user_yield_token_address,
                      user_principal_token_address, cf.amount>>,
                    "Unable to create <DepositAndTokenize> instruction")
    /\ DispatchUnchanged

\* main.rs 253-303
TokenizePrincipalYield ==
    /\ AtLeaf("tokenize principal-yield")
    /\ IF cf.underlying_mint_address = None
       THEN MissingMint
       ELSE LET T == cf.lysergic_tokenizer_address
                underlying_mint_address == cf.underlying_mint_address[2]
                underlying_vault == get_associated_token_address(T, underlying_mint_address)
                principal_mint_address == get_principal_mint_address(LystId, T)
                yield_mint_address == get_yield_mint_address(LystId, T)
                user_underlying_token_address == get_associated_token_address(wallet_pubkey, underlying_mint_address)
                user_principal_token_address == get_associated_token_address(wallet_pubkey, principal_mint_address)
                user_yield_token_address == get_associated_token_address(wallet_pubkey, yield_mint_address)
            IN  Construct(
                    log \o << Derive("get_associated_token_address", <<T, underlying_mint_address>>),
                              Derive("get_principal_mint_address", <<LystId, T>>),
                              Derive("get_yield_mint_address", <<LystId, T>>),
                              Derive("get_associated_token_address", <<wallet_pubkey, underlying_mint_address>>),
                              Derive("get_associated_token_address", <<wallet_pubkey, principal_mint_address>>),
                              Derive("get_associated_token_address", <<wallet_pubkey, yield_mint_address>>) >>,
                    "deposit_and_tokenize",
                    <<T, underlying_vault, principal_mint_address, yield_mint_address, wallet_pubkey,
                      user_underlying_token_address, user_principal_token_address,
                      user_yield_token_address, cf.amount>>,
                    "Unable to create <DepositAndTokenize> instruction")
    /\ DispatchUnchanged

\* main.rs 306-344
RedeemPrincipal ==
    /\ AtLeaf("redeem principal")
    /\ IF cf.underlying_mint_address = None
       THEN MissingMint
       ELSE LET T == cf.lysergic_tokenizer_address
                underlying_mint_address == cf.underlying_mint_address[2]
                underlying_vault_address == get_associated_token_address(T, underlying_mint_address)
                principal_mint_address == get_principal_mint_address(LystId, T)
                user_underlying_token_address == get_associated_token_address(wallet_pubkey, underlying_mint_address)
                user_principal_token_address == get_associated_token_address(wallet_pubkey, principal_mint_address)
            IN  Construct(
                    log \o << Derive("get_associated_token_address", <<T, underlying_mint_address>>),
                              Derive("get_principal_mint_address", <<LystId, T>>),
                              Derive("get_associated_token_address", <<wallet_pubkey, underlying_mint_address>>),
                              Derive("get_associated_token_address", <<wallet_pubkey, principal_mint_address>>) >>,
                    "redeem_principal_only",
                    <<T, underlying_vault_address, underlying_mint_address, principal_mint_address,
                      wallet_pubkey, user_underlying_token_address, user_principal_token_address,
                      cf.amount>>,
                    "Unable to create <RedeemPrincipalOnly> instruction")
    /\ DispatchUnchanged

\* RedeemPrincipalYield with the vault derived from the wallet instead of the
\* tokenizer.
RedeemPrincipalYieldWalletVault ==
    /\ AtLeaf("redeem principal-yield")
    /\ IF cf.underlying_mint_address = None
       THEN MissingMint
       ELSE LET T == cf.lysergic_tokenizer_address
                underlying_mint_address == cf.underlying_mint_address[2]
                underlying_vault_address == get_associated_token_address(wallet_pubkey, underlying_mint_address)
                principal_mint_address == get_principal_mint_address(LystId, T)
                yield_mint_address == get_yield_mint_address(LystId, T)
                user_underlying_token_address == get_associated_token_address(wallet_pubkey, underlying_mint_address)
                user_principal_token_address == get_associated_token_address(wallet_pubkey, principal_mint_address)
                user_yield_token_address == get_associated_token_address(wallet_pubkey, yield_mint_address)
            IN  Construct(
                    log \o << Derive("get_associated_token_address", <<wallet_pubkey, underlying_mint_address>>),
                              Derive("get_principal_mint_address", <<LystId, T>>),
                              Derive("get_yield_mint_address", <<LystId, T>>),
                              Derive("get_associated_token_address", <<wallet_pubkey, underlying_mint_address>>),
                              Derive("get_associated_token_address", <<wallet_pubkey, principal_mint_address>>),
                              Derive("get_associated_token_address", <<wallet_pubkey, yield_mint_address>>) >>,
                    "redeem_principal_and_yield",
                    <<T, underlying_vault_address, underlying_mint_address, principal_mint_address,
                      yield_mint_address, wallet_pubkey, user_underlying_token_address,
                      user_principal_token_address, user_yield_token_address, cf.amount>>,
                    "Unable to create <RedeemPrincipalAndYield> instruction")
    /\ DispatchUnchanged

\* main.rs 345-394
RedeemPrincipalYield ==
    /\ AtLeaf("redeem principal-yield")
    /\ IF cf.underlying_mint_address = None
       THEN MissingMint
       ELSE LET T == cf.lysergic_tokenizer_address
                underlying_mint_address == cf.underlying_mint_address[2]
                underlying_vault_address == get_associated_token_address(T, underlying_mint_address)
                principal_mint_address == get_principal_mint_address(LystId, T)
                yield_mint_address == get_yield_mint_address(LystId, T)
                user_underlying_token_address == get_associated_token_address(wallet_pubkey, underlying_mint_address)
                user_principal_token_address == get_associated_token_address(wallet_pubkey, principal_mint_address)
                user_yield_token_address == get_associated_token_address(wallet_pubkey, yield_mint_address)
            IN  Construct(
                    log \o << Derive("get_associated_token_address", <<T, underlying_mint_address>>),
                              Derive("get_principal_mint_address", <<LystId, T>>),
                              Derive("get_yield_mint_address", <<LystId, T>>),
                              Derive("get_associated_token_address", <<wallet_pubkey, underlying_mint_address>>),
                              Derive("get_associated_token_address", <<wallet_pubkey, principal_mint_address>>),
                              Derive("get_associated_token_address", <<wallet_pubkey, yield_mint_address>>) >>,
                    "redeem_principal_and_yield",
                    <<T, underlying_vault_address, underlying_mint_address, principal_mint_address,
                      yield_mint_address, wallet_pubkey, user_underlying_token_address,
                      user_principal_token_address, user_yield_token_address, cf.amount>>,
                    "Unable to create <RedeemPrincipalAndYield> instruction")
    /\ DispatchUnchanged

\* ClaimYield with the yield-mint derivation moved ahead of the mint check.
ClaimYieldDeriveFirst ==
    /\ AtLeaf("claim yield")
    /\ LET T == cf.lysergic_tokenizer_address
           yield_mint_address == get_yield_mint_address(LystId, T)
           first == Append(log, Derive("get_yield_mint_address", <<LystId, T>>))
       IN  IF cf.underlying_mint_address = None
           THEN /\ Fail(Wrapped("Underlying mint address is required", ""))
                /\ log' = first
                /\ UNCHANGED instruction
           ELSE LET underlying_mint_address == cf.underlying_mint_address[2]
                    user_underlying_token_address == get_associated_token_address(wallet_pubkey, underlying_mint_address)
                    user_yield_token_address == get_associated_token_address(wallet_pubkey, yield_mint_address)
                IN  Construct(
                        first \o << Derive("get_associated_token_address", <<wallet_pubkey, underlying_mint_address>>),
                                    Derive("get_associated_token_address", <<wallet_pubkey, yield_mint_address>>) >>,
                        "claim_yield",
                        <<T, underlying_mint_address, yield_mint_address, wallet_pubkey,
                          user_underlying_token_address, user_yield_token_address, cf.amount>>,
                        "Unable to create <ClaimYield> instruction")
    /\ DispatchUnchanged

\* main.rs 397-428
ClaimYield ==
    /\ AtLeaf("claim yield")
    /\ IF cf.underlying_mint_address = None
       THEN MissingMint
       ELSE LET T == cf.lysergic_tokenizer_address
                underlying_mint_address == cf.underlying_mint_address[2]
                yield_mint_address == get_yield_mint_address(LystId, T)
                user_underlying_token_address == get_associated_token_address(wallet_pubkey, underlying_mint_address)
                user_yield_token_address == get_associated_token_address(wallet_pubkey, yield_mint_address)
            IN  Construct(
                    log \o << Derive("get_yield_mint_address", <<LystId, T>>),
                              Derive("get_associated_token_address", <<wallet_pubkey, underlying_mint_address>>),
                              Derive("get_associated_token_address", <<wallet_pubkey, yield_mint_address>>) >>,
                    "claim_yield",
                    <<T, underlying_mint_address, yield_mint_address, wallet_pubkey,
                      user_underlying_token_address, user_yield_token_address, cf.amount>>,
                    "Unable to create <ClaimYield> instruction")
    /\ DispatchUnchanged

\* main.rs 431-449
BurnPrincipal ==
    /\ AtLeaf("burn principal")
    /\ LET T == cf.lysergic_tokenizer_address
           principal_mint_address == get_principal_mint_address(LystId, T)
           user_principal_token_address == get_associated_token_address(wallet_pubkey, principal_mint_address)
       IN  Construct(
               log \o << Derive("get_principal_mint_address", <<LystId, T>>),
                         Derive("get_associated_token_address", <<wallet_pubkey, principal_mint_address>>) >>,
               "burn_principal_token",
               <<T, principal_mint_address, wallet_pubkey, user_principal_token_address, cf.amount>>,
               "Unable to create <BurnPrincipal> instruction")
    /\ DispatchUnchanged

\* BurnYield calling the constructor of burn principal.
BurnYieldWrongConstructor ==
    /\ AtLeaf("burn yield")
    /\ LET T == cf.lysergic_tokenizer_address
           yield_mint_address == get_yield_mint_address(LystId, T)
           user_yield_token_address == get_associated_token_address(wallet_pubkey, yield_mint_address)
       IN  Construct(
               log \o << Derive("get_yield_mint_address", <<LystId, T>>),
                         Derive("get_associated_token_address", <<wallet_pubkey, yield_mint_address>>) >>,
               "burn_principal_token",
               <<T, yield_mint_address, wallet_pubkey, user_yield_token_address, cf.amount>>,
               "Unable to create <BurnYield> instruction")
    /\ DispatchUnchanged

\* main.rs 450-468
BurnYield ==
    /\ AtLeaf("burn yield")
    /\ LET T == cf.lysergic_tokenizer_address
           yield_mint_address == get_yield_mint_address(LystId, T)
           user_yield_token_address == get_associated_token_address(wallet_pubkey, yield_mint_address)
       IN  Construct(
               log \o << Derive("get_yield_mint_address", <<LystId, T>>),
                         Derive("get_associated_token_address", <<wallet_pubkey, yield_mint_address>>) >>,
               "burn_yield_token",
               <<T, yield_mint_address, wallet_pubkey, user_yield_token_address, cf.amount>>,
               "Unable to create <BurnYield> instruction")
    /\ DispatchUnchanged

\* ---------------------------------------------------------------- assembly
\* main.rs 472: Transaction::new_with_payer(&[instruction], Some(&wallet_pubkey))
AssembleTransaction ==
    /\ pc = "assemble"
    /\ transaction' = Some([instructions |-> <<instruction[2]>>, payer |-> wallet_pubkey])
    /\ pc' = "get_latest_blockhash"
    /\ UNCHANGED <<args, validExpiries, configLoad, solana_config_file, wallet_keypair, log,
                   instruction, latest_blockchash, signatures, error, exit_code>>

\* GetLatestBlockhash with a fetch failure replaced by the default hash.
GetLatestBlockhashOrDefault ==
    /\ pc = "get_latest_blockhash"
    /\ \E ok \in BOOLEAN :
        /\ log' = Append(log, Call("get_latest_blockhash", <<solana_config_file.json_rpc_url>>, ok))
        /\ latest_blockchash' = IF ok THEN Some(<<"blockhash", solana_config_file.json_rpc_url>>)
                                ELSE Some(<<"blockhash", "default">>)
        /\ pc' = "sign"
    /\ UNCHANGED <<args, validExpiries, configLoad, solana_config_file, wallet_keypair,
                   instruction, transaction, signatures, error, exit_code>>

\* GetLatestBlockhash with one retry after a failed fetch.
GetLatestBlockhashRetryOnce ==
    /\ pc = "get_latest_blockhash"
    /\ \E ok \in BOOLEAN :
        /\ log' = Append(log, Call("get_latest_blockhash", <<solana_config_file.json_rpc_url>>, ok))
        /\ IF ok
           THEN /\ latest_blockchash' = Some(<<"blockhash", solana_config_file.json_rpc_url>>)
                /\ pc' = "sign"
                /\ UNCHANGED <<error, exit_code>>
           ELSE IF Count({"get_latest_blockhash"}) = 0
                THEN UNCHANGED <<latest_blockchash, pc, error, exit_code>>
                ELSE /\ Fail(Wrapped("Unable to get latest blockhash", "get_latest_blockhash"))
                     /\ UNCHANGED latest_blockchash
    /\ UNCHANGED <<args, validExpiries, configLoad, solana_config_file, wallet_keypair,
                   instruction, transaction, signatures>>

\* main.rs 473-475; the client was built at 103-106 from solana_config_file.json_rpc_url
GetLatestBlockhash ==
    /\ pc = "get_latest_blockhash"
    /\ \E ok \in BOOLEAN :
        /\ log' = Append(log, Call("get_latest_blockhash", <<solana_config_file.json_rpc_url>>, ok))
        /\ IF ok
           THEN /\ latest_blockchash' = Some(<<"blockhash", solana_config_file.json_rpc_url>>)
                /\ pc' = "sign"
                /\ UNCHANGED <<error, exit_code>>
           ELSE /\ Fail(Wrapped("Unable to get latest blockhash", "get_latest_blockhash"))
                /\ UNCHANGED latest_blockchash
    /\ UNCHANGED <<args, validExpiries, configLoad, solana_config_file, wallet_keypair,
                   instruction, transaction, signatures>>

\* main.rs 477-479: transaction.sign(&[&wallet_keypair], latest_blockchash); Ok(())
SignTransaction ==
    /\ pc = "sign"
    /\ log' = Append(log, Call("sign", <<wallet_keypair[2], latest_blockchash[2]>>, TRUE))
    /\ signatures' = <<[signer |-> wallet_pubkey, blockhash |-> latest_blockchash[2]]>>
    /\ exit_code' = 0
    /\ pc' = "done"
    /\ UNCHANGED <<args, validExpiries, configLoad, solana_config_file, wallet_keypair,
                   instruction, transaction, latest_blockchash, error>>

Next == LoadConfig \/ ReadKeypair
        \/ InitTokenizer \/ InitMints \/ InitTokenizerMints
        \/ TokenizeDeposit \/ TokenizePrincipal \/ TokenizeYield \/ TokenizePrincipalYield
        \/ RedeemPrincipal \/ RedeemPrincipalYield \/ ClaimYield
        \/ BurnPrincipal \/ BurnYield
        \/ AssembleTransaction \/ GetLatestBlockhash \/ SignTransaction

Spec == Init /\ [][Next]_vars

\* The run is sequential and every call returns: a step that is enabled is taken.
FairSpec == Spec /\ WF_vars(Next)

TypeOK ==
    /\ pc \in {"load_config", "read_keypair", "dispatch", "assemble",
               "get_latest_blockhash", "sign", "done"}
    /\ exit_code \in {-1, 0, 1}
    /\ configLoad \in {"pending", "none", "ok", "malformed"}

\* ---------------------------------------------------------------- properties
Entries(ops) == SelectSeq(log, LAMBDA e : e.op \in ops)
Failed(ops) == \E i \in Indices(ops) : ~log[i].ok
Succeeded(ops) == \E i \in Indices(ops) : log[i].ok

\* The address a derivation entry of the log returned.
Derived(e) ==
    CASE e.op = "get_tokenizer_address" -> get_tokenizer_address(e.in[1], e.in[2], e.in[3])
      [] e.op = "get_principal_mint_address" -> get_principal_mint_address(e.in[1], e.in[2])
      [] e.op = "get_yield_mint_address" -> get_yield_mint_address(e.in[1], e.in[2])
      [] e.op = "get_associated_token_address" -> get_associated_token_address(e.in[1], e.in[2])

DerivedAddresses == [i \in 1..Len(Entries(DeriveOps)) |-> Derived(Entries(DeriveOps)[i])]

MintRequiringLeaves == {"tokenize deposit", "tokenize principal-yield", "redeem principal",
                        "redeem principal-yield", "claim yield"}
MintOmitted == /\ args.cmd.leaf \in MintRequiringLeaves
               /\ cf.underlying_mint_address = None
\* The match on args.cmd has been evaluated.
Dispatched == wallet_keypair # None /\ pc # "dispatch"

\* C1: when an action that requires the underlying mint is run without it, the
\* run never derives an address, never calls an instruction constructor and
\* never calls the network, and the dispatch ends the run with the
\* "Underlying mint address is required" error and a non-zero exit.
C1_MissingMintFailsBeforeAnyCall ==
    MintOmitted =>
        /\ Count(DeriveOps) = 0
        /\ Count(ConstructorOps) = 0
        /\ Count(NetworkOps) = 0
        /\ instruction = None
        /\ pc \in {"load_config", "read_keypair", "dispatch", "done"}
        /\ pc = "done" => exit_code = 1
        /\ Dispatched =>
              /\ pc = "done"
              /\ error = Some(Wrapped("Underlying mint address is required", ""))

C1_Witness ==
    /\ MintOmitted
    /\ Dispatched
    /\ pc = "done"
    /\ error = Some(Wrapped("Underlying mint address is required", ""))

\* C2: tokenize principal-yield with tokenizer T, amount A and mint U derives
\* exactly vault, principal mint, yield mint, user-underlying, user-principal
\* and user-yield, all before the constructor call, and deposit_and_tokenize
\* receives T, vault, principal mint, yield mint, wallet, user-underlying,
\* user-principal, user-yield, A in that order.
C2_PrincipalYieldDerivationsAndOrder ==
    (args.cmd.leaf = "tokenize principal-yield" /\ cf.underlying_mint_address # None) =>
        IF ~Dispatched
        THEN Count(DeriveOps) = 0 /\ Count(ConstructorOps) = 0
        ELSE LET T == cf.lysergic_tokenizer_address
                 U == cf.underlying_mint_address[2]
                 A == cf.amount
                 W == wallet_pubkey
                 vault == get_associated_token_address(T, U)
                 pm == get_principal_mint_address(LystId, T)
                 ym == get_yield_mint_address(LystId, T)
                 uu == get_associated_token_address(W, U)
                 up == get_associated_token_address(W, pm)
                 uy == get_associated_token_address(W, ym)
             IN  /\ DerivedAddresses = <<vault, pm, ym, uu, up, uy>>
                 /\ Count(ConstructorOps) = 1
                 /\ \A c \in Indices(ConstructorOps) :
                       /\ \A d \in Indices(DeriveOps) : d < c
                       /\ log[c].op = "deposit_and_tokenize"
                       /\ log[c].in = <<T, vault, pm, ym, W, uu, up, uy, A>>

C2_Witness ==
    /\ args.cmd.leaf = "tokenize principal-yield"
    /\ Dispatched
    /\ Count(DeriveOps) = 6
    /\ Succeeded({"deposit_and_tokenize"})

Leaves == InitLeaves \cup InstructionLeaves

\* The message each arm's map_err puts around a constructor failure.
ActionMessage(leaf) ==
    CASE leaf = "init tokenizer" -> "Unable to create init instruction"
      [] leaf = "init mints" -> "Unable to create <Initialize> instruction"
      [] leaf = "init tokenizer-mints" -> "Unable to create <InitializeTokenizerAndMints> instruction"
      [] leaf = "tokenize deposit" -> "Unable to create <Deposit> instruction"
      [] leaf = "tokenize principal" -> "Unable to create <TokenizePrincipal> instruction"
      [] leaf = "tokenize yield" -> "Unable to create <TokenizeYield> instruction"
      [] leaf = "tokenize principal-yield" -> "Unable to create <DepositAndTokenize> instruction"
      [] leaf = "redeem principal" -> "Unable to create <RedeemPrincipalOnly> instruction"
      [] leaf = "redeem principal-yield" -> "Unable to create <RedeemPrincipalAndYield> instruction"
      [] leaf = "claim yield" -> "Unable to create <ClaimYield> instruction"
      [] leaf = "burn principal" -> "Unable to create <BurnPrincipal> instruction"
      [] leaf = "burn yield" -> "Unable to create <BurnYield> instruction"

\* The run ended on a failure raised while building the instruction.
ConstructionFailed ==
    /\ pc = "done"
    /\ error # None
    /\ error[2].cause \in ConstructorOps \cup {"Expiry::from_i64"}

\* C3: every failure raised while building an action's instruction, the
\* rejection of the expiry included, reaches the top level under that action's
\* own message, and the twelve messages are pairwise different.
C3_ConstructionFailureNamesAction ==
    /\ Cardinality({ActionMessage(l) : l \in Leaves}) = 12
    /\ ConstructionFailed => error[2].msg = ActionMessage(args.cmd.leaf)

\* C4: in the three init actions no tokenizer-address derivation and no
\* constructor call comes before a successful validation of the expiry, and a
\* run whose expiry fails the predicate produces no instruction and ends in an
\* error.
C4_ExpiryValidatedBeforeUse ==
    args.cmd.leaf \in InitLeaves =>
        /\ \A i \in Indices({"get_tokenizer_address"} \cup ConstructorOps) :
              \E j \in Indices({"Expiry::from_i64"}) : j < i /\ log[j].ok
        /\ cf.expiry \notin validExpiries =>
              /\ instruction = None
              /\ pc = "done" => error # None /\ exit_code = 1

\* C5: a supplied RPC option is the endpoint the blockhash is fetched from, a
\* supplied payer option is the path the keypair is read from, and a supplied
\* configuration option is the path the configuration is loaded from.
C5_GlobalOptionsOverride ==
    /\ args.rpc # None =>
          \A i \in Indices({"get_latest_blockhash"}) : log[i].in = <<args.rpc[2]>>
    /\ args.payer # None =>
          \A i \in Indices({"read_keypair_file"}) : log[i].in = <<args.payer[2]>>
    /\ (args.config # None /\ pc # "load_config") =>
          /\ Count({"Config::load"}) = 1
          /\ \A i \in Indices({"Config::load"}) : log[i].in = <<args.config[2]>>

\* C6 as stated: a configuration file that cannot be loaded ends the run with
\* an error, and the run never reaches keypair loading, dispatch, blockhash
\* fetch or signing.
C6_MalformedConfigIsFatal ==
    configLoad = "malformed" =>
        /\ pc = "done"
        /\ error # None
        /\ exit_code = 1
        /\ Count({"read_keypair_file", "get_latest_blockhash", "sign"} \cup ConstructorOps) = 0

\* C6 amended: a configuration file that cannot be loaded is not an error; the
\* run goes on with the built-in default configuration: it reads the keypair
\* from the default path, and any blockhash is fetched from the default
\* endpoint; the run never ends on a configuration-load error.
C6_MalformedConfigFallsBackToDefault ==
    configLoad = "malformed" =>
        /\ solana_config_file = ConfigDefault
        /\ pc = "done" => Count({"read_keypair_file"}) = 1
        /\ \A i \in Indices({"read_keypair_file"}) : log[i].in = <<ConfigDefault.keypair_path>>
        /\ \A i \in Indices({"get_latest_blockhash"}) : log[i].in = <<ConfigDefault.json_rpc_url>>
        /\ error # None => error[2].cause # "Config::load"

C6_Witness ==
    /\ configLoad = "malformed"
    /\ Failed({"Config::load"})
    /\ pc = "done"
    /\ exit_code = 0
    /\ signatures # <<>>

\* C7: when read_keypair_file fails, the run ends there with the "Unable to
\* read keypair file" error and exit status 1, and the log never holds a
\* network call, whatever the command.
C7_UnreadableKeypairFailsWithoutNetwork ==
    Failed({"read_keypair_file"}) =>
        /\ pc = "done"
        /\ error = Some(Wrapped("Unable to read keypair file", "read_keypair_file"))
        /\ exit_code = 1
        /\ Count(NetworkOps) = 0
        /\ Count(DeriveOps \cup ConstructorOps \cup {"sign"}) = 0

C7_Witness ==
    /\ Failed({"read_keypair_file"})
    /\ pc = "done"
    /\ exit_code = 1
    /\ args.cmd.leaf = "burn yield"

\* The number of derivations each arm performs before its constructor call.
DerivationsOf(leaf) ==
    CASE leaf \in {"init tokenizer", "init tokenizer-mints"} -> 4
      [] leaf = "init mints" -> 3
      [] leaf = "tokenize deposit" -> 1
      [] leaf \in {"tokenize principal", "tokenize yield", "burn principal", "burn yield"} -> 2
      [] leaf \in {"tokenize principal-yield", "redeem principal-yield"} -> 6
      [] leaf = "redeem principal" -> 4
      [] leaf = "claim yield" -> 3

\* C8: when the blockhash fetch fails after a successful construction, all the
\* derivations of the action are already in the log, the run ends with the
\* "Unable to get latest blockhash" error and no signature exists; and in
\* every run a signature is preceded by a successful blockhash fetch.
C8_NoSignatureWithoutBlockhash ==
    /\ Failed({"get_latest_blockhash"}) =>
          /\ Succeeded(ConstructorOps)
          /\ Count(DeriveOps) = DerivationsOf(args.cmd.leaf)
          /\ \A d \in Indices(DeriveOps) : \A n \in Indices(NetworkOps) : d < n
          /\ pc = "done"
          /\ error = Some(Wrapped("Unable to get latest blockhash", "get_latest_blockhash"))
          /\ exit_code = 1
          /\ signatures = <<>>
          /\ Count({"sign"}) = 0
    /\ (signatures # <<>> \/ Count({"sign"}) > 0) =>
          /\ latest_blockchash # None
          /\ \A s \in Indices({"sign"}) :
                \E n \in Indices({"get_latest_blockhash"}) : n < s /\ log[n].ok
          /\ \A i \in 1..Len(signatures) : signatures[i].blockhash = latest_blockchash[2]

C8_Witness ==
    /\ Failed({"get_latest_blockhash"})
    /\ Succeeded(ConstructorOps)
    /\ Count(DeriveOps) = 6
    /\ pc = "done"
    /\ signatures = <<>>

\* The external constructor each leaf action's arm calls.
ConstructorOf(leaf) ==
    CASE leaf = "init tokenizer" -> "init_lysergic_tokenizer"
      [] leaf = "init mints" -> "init_mints"
      [] leaf = "init tokenizer-mints" -> "init_tokenizer_and_mints"
      [] leaf = "tokenize deposit" -> "deposit_underlying"
      [] leaf = "tokenize principal" -> "tokenize_principal"
      [] leaf = "tokenize yield" -> "tokenize_yield"
      [] leaf = "tokenize principal-yield" -> "deposit_and_tokenize"
      [] leaf = "redeem principal" -> "redeem_principal_only"
      [] leaf = "redeem principal-yield" -> "redeem_principal_and_yield"
      [] leaf = "claim yield" -> "claim_yield"
      [] leaf = "burn principal" -> "burn_principal_token"
      [] leaf = "burn yield" -> "burn_yield_token"

\* C9: a run that has assembled its transaction has made exactly one
\* constructor call, the one of its leaf action (the twelve leaves have twelve
\* different constructors); the transaction holds exactly the instruction that
\* call returned, its fee payer is the wallet, and the wallet is the only
\* signer.
C9_OneInstructionOfTheParsedAction ==
    /\ Cardinality({ConstructorOf(l) : l \in Leaves}) = 12
    /\ transaction # None =>
          /\ Count(ConstructorOps) = 1
          /\ \A c \in Indices(ConstructorOps) :
                /\ log[c].op = ConstructorOf(args.cmd.leaf)
                /\ log[c].ok
                /\ transaction[2].instructions = <<[ctor |-> log[c].op, args |-> log[c].in]>>
          /\ transaction[2].payer = wallet_pubkey
          /\ signatures # <<>> =>
                /\ Len(signatures) = 1
                /\ signatures[1].signer = wallet_pubkey
          /\ \A s \in Indices({"sign"}) : log[s].in[1] = wallet_keypair[2]

C9_Witness ==
    /\ transaction # None
    /\ args.cmd.leaf = "burn yield"
    /\ signatures # <<>>
    /\ pc = "done"

\* Every step of the run succeeded and the transaction was signed.
AllSucceeded ==
    /\ Succeeded({"read_keypair_file"})
    /\ ~MintOmitted
    /\ Succeeded(ConstructorOps)
    /\ Succeeded({"get_latest_blockhash"})
    /\ Count({"sign"}) = 1
    /\ signatures # <<>>
    /\ error = None

C10_ExitCodes ==
    /\ exit_code = 0 <=> (pc = "done" /\ AllSucceeded)
    /\ pc = "done" => exit_code \in {0, 1}
    /\ error # None <=> exit_code = 1
    /\ (MintOmitted /\ pc = "done") => exit_code = 1
    /\ Failed({"read_keypair_file", "Expiry::from_i64", "get_latest_blockhash"} \cup ConstructorOps) =>
          pc = "done" /\ exit_code = 1
    /\ Count({"read_keypair_file"}) <= 1
    /\ Count(ConstructorOps) <= 1
    /\ Count({"get_latest_blockhash"}) <= 1
    /\ Count({"sign"}) <= 1

\* C10: every run terminates; it exits with 0 exactly when the keypair read,
\* the mint check, the construction and the blockhash fetch all succeeded and
\* the transaction was signed, and with 1 after any failure; no keypair read,
\* constructor call, blockhash fetch or signing happens twice in a run.
C10_TerminatesOnceWithExitCode ==
    /\ <>(pc = "done")
    /\ []C10_ExitCodes

C10_Witness ==
    /\ pc = "done"
    /\ exit_code = 0
    /\ AllSucceeded
    /\ args.cmd.leaf = "redeem principal"

\* Where each constructor takes the vault, the principal mint and the yield
\* mint among its arguments (0: it takes none).
AccountPositions(ctor) ==
    CASE ctor \in {"init_lysergic_tokenizer", "init_tokenizer_and_mints"} ->
            [vault |-> 3, principal_mint |-> 5, yield_mint |-> 6]
      [] ctor = "init_mints" -> [vault |-> 0, principal_mint |-> 3, yield_mint |-> 4]
      [] ctor = "deposit_underlying" -> [vault |-> 3, principal_mint |-> 0, yield_mint |-> 0]
      [] ctor \in {"tokenize_principal", "burn_principal_token"} ->
            [vault |-> 0, principal_mint |-> 2, yield_mint |-> 0]
      [] ctor \in {"tokenize_yield", "burn_yield_token"} ->
            [vault |-> 0, principal_mint |-> 0, yield_mint |-> 2]
      [] ctor = "deposit_and_tokenize" -> [vault |-> 2, principal_mint |-> 3, yield_mint |-> 4]
      [] ctor = "redeem_principal_only" -> [vault |-> 2, principal_mint |-> 4, yield_mint |-> 0]
      [] ctor = "redeem_principal_and_yield" -> [vault |-> 2, principal_mint |-> 4, yield_mint |-> 5]
      [] ctor = "claim_yield" -> [vault |-> 0, principal_mint |-> 0, yield_mint |-> 3]

\* The tokenizer the run is about: derived from (U, E) by an init action,
\* given on the command line to every other action.
TokenizerOfRun ==
    IF args.cmd.leaf \in InitLeaves
    THEN get_tokenizer_address(LystId, cf.underlying_mint_address, cf.expiry)
    ELSE cf.lysergic_tokenizer_address

\* C11: in every run, init or later, the vault a constructor receives is
\* assoc(T, U) and the mints it receives are pmint(T) and ymint(T), for the
\* tokenizer T and the underlying mint U of the run; an init run for (U, E)
\* and any later run given T = tokenizer(U, E) and U therefore pass the same
\* vault and mint addresses.
C11_AccountIdentitiesAgree ==
    \A c \in Indices(ConstructorOps) :
        LET T == TokenizerOfRun
            pos == AccountPositions(log[c].op)
        IN  /\ log[c].in[1] = T
            /\ pos.vault # 0 =>
                  LET U == IF args.cmd.leaf \in InitLeaves THEN cf.underlying_mint_address
                           ELSE cf.underlying_mint_address[2]
                  IN  log[c].in[pos.vault] = get_associated_token_address(T, U)
            /\ pos.principal_mint # 0 =>
                  log[c].in[pos.principal_mint] = get_principal_mint_address(LystId, T)
            /\ pos.yield_mint # 0 =>
                  log[c].in[pos.yield_mint] = get_yield_mint_address(LystId, T)

\* A redeem of principal and yield on a tokenizer that an init action derives
\* for the same underlying mint.
C11_Witness ==
    /\ args.cmd.leaf = "redeem principal-yield"
    /\ cf.underlying_mint_address # None
    /\ \E e \in Expiries :
          cf.lysergic_tokenizer_address = get_tokenizer_address(LystId, cf.underlying_mint_address[2], e)
    /\ Succeeded({"redeem_principal_and_yield"})
    /\ pc = "done"
    /\ exit_code = 0
====
